---- MODULE Spec2Model ----
(***************************************************************************)
(* X-ray speckle visibility spectroscopy: skxray/speckle_visibility/xsvs.py *)
(*                                                                         *)
(* The model follows xsvs() and _process().  One run of xsvs() is a walk    *)
(* through the two nested loops of the function:                            *)
(*    StartSeries  the head of "for i, images in image_sets" (134-152)      *)
(*    Frame        one pass of the body of "for n, img in images" (153-192) *)
(*    EndSeries    the stream of the current series is exhausted            *)
(*    Return       image_sets is exhausted, line 194                        *)
(* Floating point values are modelled as exact rationals <<num, den>>, with *)
(* <<0, 0>> for NaN (the result of 0/0 in numpy).                           *)
(***************************************************************************)
EXTENDS Integers, Sequences, FiniteSets, TLC

\* ---------------------------------------------------------------- bounds
\* total number of raw frames supplied over all series of one run
MaxFrames == 4
\* number of series in image_sets
MaxSeries == 2
\* number of integration levels (num_times)
MaxLevels == 3
\* timebin_num values of the enumerated runs
TimebinNums == {1, 2, 3}

\* ------------------------------------------------------------ evaluation
\* The set holding the value of e, and Body applied to the value of e (of e1
\* and e2): e is evaluated once, where a definition used by name is evaluated
\* at each of its uses
Value(e) == {y \in {e} : y = y}

With(e, Body(_)) == CHOOSE r \in {Body(v) : v \in Value(e)} : TRUE

With2(e1, e2, Body(_, _)) ==
    CHOOSE r \in {Body(v[1], v[2]) : v \in Value(<<e1, e2>>)} : TRUE

\* ------------------------------------------------------------- rationals
NaN == <<0, 0>>

IsNaN(r) == r[2] = 0

Abs(x) == IF x < 0 THEN -x ELSE x

RECURSIVE GCD(_, _)
GCD(a, b) == IF b = 0 THEN a ELSE GCD(b, a % b)

\* the rational n/d in lowest terms with a positive denominator; x/0 is only
\* ever 0/0 here, which numpy evaluates to nan
Rat(n, d) ==
    IF d = 0 THEN NaN
    ELSE With(GCD(Abs(n), Abs(d)), LAMBDA g :
            IF d < 0 THEN <<(-n) \div g, (-d) \div g>> ELSE <<n \div g, d \div g>>)

RInt(n) == <<n, 1>>

\* sums are formed over the least common denominator
LCM(a, b) == (a \div GCD(a, b)) * b

RAdd(x, y) == IF IsNaN(x) \/ IsNaN(y) THEN NaN
              ELSE With(LCM(x[2], y[2]), LAMBDA d :
                      Rat(x[1] * (d \div x[2]) + y[1] * (d \div y[2]), d))

RSub(x, y) == IF IsNaN(x) \/ IsNaN(y) THEN NaN
              ELSE With(LCM(x[2], y[2]), LAMBDA d :
                      Rat(x[1] * (d \div x[2]) - y[1] * (d \div y[2]), d))

RMul(x, y) == IF IsNaN(x) \/ IsNaN(y) THEN NaN
              ELSE Rat(x[1] * y[1], x[2] * y[2])

\* x / n for an integer n
RDivInt(x, n) == IF IsNaN(x) THEN NaN ELSE Rat(x[1], x[2] * n)

RSquare(x) == RMul(x, x)

\* x ** .5 : the value is kept as its radicand; a negative or undefined
\* radicand gives nan
RSqrt(x) == IF IsNaN(x) \/ x[1] < 0 THEN [rad |-> NaN] ELSE [rad |-> x]

\* ------------------------------------------- cells of the object arrays
\* A cell of speckle_cts, speckle_cts_pow, speckle_cts_all, ... is either the
\* Python number it was created with by np.zeros(dtype=object) (scalar) or a
\* numpy array of floats.  Arithmetic between cells broadcasts a scalar.
Scalar(r) == [scalar |-> TRUE, v |-> <<r>>]

Array(s) == [scalar |-> FALSE, v |-> s]

ZeroCell == Scalar(RInt(0))

CellLen(x, y) == IF ~x.scalar THEN Len(x.v) ELSE Len(y.v)

CellAt(x, k) == IF x.scalar THEN x.v[1] ELSE x.v[k]

Broadcast(Op(_, _), x0, y0) ==
    With2(x0, y0, LAMBDA x, y :
        [scalar |-> x.scalar /\ y.scalar,
         v |-> [k \in 1..CellLen(x, y) |-> Op(CellAt(x, k), CellAt(y, k))]])

CellAdd(x, y) == Broadcast(RAdd, x, y)

CellSub(x, y) == Broadcast(RSub, x, y)

CellDivInt(x0, n) ==
    With(x0, LAMBDA x :
        [scalar |-> x.scalar, v |-> [k \in 1..Len(x.v) |-> RDivInt(x.v[k], n)]])

\* np.power(x, 2)
CellSquare(x0) ==
    With(x0, LAMBDA x :
        [scalar |-> x.scalar, v |-> [k \in 1..Len(x.v) |-> RSquare(x.v[k])]])

\* np.power(x, .5)
CellSqrt(x0) ==
    With(x0, LAMBDA x :
        [scalar |-> x.scalar, v |-> [k \in 1..Len(x.v) |-> RSqrt(x.v[k])]])

\* ------------------------------------------------------------- histogram
\* np.arange(n): the integers 0 .. n-1
Arange(n) == [k \in 1..n |-> k - 1]

RECURSIVE SumSeq(_)
SumSeq(s) == IF s = <<>> THEN 0 ELSE Head(s) + SumSeq(Tail(s))

\* np.histogram(a, bins=edges) without normalisation: bin k is
\* [edges[k], edges[k+1]), the last bin also holds its right edge
HistCounts(a, edges) ==
    LET nb == IF Len(edges) = 0 THEN 0 ELSE Len(edges) - 1
    IN  [k \in 1..nb |->
            Cardinality({p \in 1..Len(a) :
                /\ edges[k] <= a[p]
                /\ \/ a[p] < edges[k + 1]
                   \/ k = nb /\ a[p] = edges[k + 1]})]

\* the counts n normalised as normed=True does: n / (n * diff(edges)).sum()
Normed(n, edges) ==
    With(SumSeq([k \in 1..Len(n) |-> n[k] * (edges[k + 1] - edges[k])]), LAMBDA total :
        Array([k \in 1..Len(n) |-> Rat(n[k], total)]))

\* np.histogram(a, bins=edges, normed=True)
Histogram(a0, edges0) ==
    With2(a0, edges0, LAMBDA a, edges :
        With(HistCounts(a, edges), LAMBDA n : Normed(n, edges)))

\* ------------------------------------------------------------ the inputs
\* labels: the ROI id of every selected pixel, in the order of indices
\* (corr.extract_label_indices).  DenseLabels has a two-pixel and a
\* one-pixel ROI; in GapLabels no pixel carries label 2.
DenseLabels == <<1, 1, 2>>

GapLabels == <<1, 1, 3>>

\* the 4x4 label map of the end-to-end scenario: two ROIs of 8 pixels each
E2ELabels == <<1, 1, 1, 1, 1, 1, 1, 1, 2, 2, 2, 2, 2, 2, 2, 2>>

VARIABLES
    labels,               \* input: ROI id per selected pixel
    timebin_num,          \* input
    num_times,            \* number of levels, len(time_bin)
    max_cts,              \* roi.max_counts(image_sets, label_array)
    pc,                   \* "next_series", "next_frame", "done"
    i,                    \* index of the current series, -1 before the first
    buf, track_level, cur, img_per_level, speckle_cts, speckle_cts_pow,
    speckle_cts_all, speckle_cts_pow_all,
    speckle_cts_std_dev,  \* <<>> while the name is unbound, <<value>> after
    result,               \* outcome of the call, "none" while it runs
    \* history variables, read by the properties only
    n_total,              \* raw frames supplied so far in the run
    raw,                  \* the raw frames of the current series, in order
    spe_hist,             \* the last per-frame histogram of each (level, ROI)
    calls,                \* levels handed to _process by the last Frame, in order
    hist_sum, hist_pow_sum, \* sums of the histograms folded per (level, ROI)
    series_cts,           \* speckle_cts at the end of every completed series
    series_len,           \* number of frames of every completed series
    n_folds,              \* number of times lines 187-192 have run
    written,              \* per level, the [slot, frame] stored in buf by the
                          \* current series, in order
    \* normalize_bin_edges(num_times, num_rois, max_cts, mean_roi); i is its
    \* loop index, pc is "normalize" while it runs
    mean_roi,             \* argument: mean intensity per ROI
    norm_bin_edges, norm_bin_centers

inputs == <<labels, timebin_num, num_times, max_cts>>

run_state == <<buf, track_level, cur, img_per_level, speckle_cts, speckle_cts_pow>>

all_state == <<speckle_cts_all, speckle_cts_pow_all, speckle_cts_std_dev>>

history == <<n_total, raw, spe_hist, calls, hist_sum, hist_pow_sum, series_cts, series_len,
             n_folds, written>>

norm_state == <<mean_roi, norm_bin_edges, norm_bin_centers>>

vars == <<inputs, pc, i, run_state, all_state, result, history, norm_state>>

RECURSIVE MaxSeq(_)
MaxSeq(s) == IF s = <<>> THEN 0
             ELSE LET m == MaxSeq(Tail(s)) IN IF Head(s) > m THEN Head(s) ELSE m

\* np.max(label_array)
num_roi == MaxSeq(labels)

Levels == 0..(num_times - 1)

Rois == 0..(num_roi - 1)

\* np.bincount(labels, minlength=num_roi+1)[1:], for ROI j (label j+1)
num_pixels(j) == Cardinality({p \in 1..Len(labels) : labels[p] = j + 1})

\* bin_edges[level, j] = np.arange(max_cts*2**level)
bin_edges(level) == Arange(max_cts * 2^level)

PyIndexClamp(k, n) == IF k < 0 THEN 0 ELSE k

\* a[k] for a Python index k into a sequence of length n: -1 is the last slot
PyIndex(k, n) == IF k < 0 THEN k + n ELSE k

\* buf[level, buf_no][labels == j+1]
RoiData(frame, j) ==
    LET sel == SelectSeq([p \in 1..Len(labels) |-> p], LAMBDA p : labels[p] = j + 1)
    IN  [k \in 1..Len(sel) |-> frame[sel[k]]]

\* a cell of buf holds the scalar 0 of np.zeros (written <<>>) until a frame
\* is stored in it; scalar + array broadcasts
FrameAdd(a, b) ==
    IF a = <<>> THEN b
    ELSE IF b = <<>> THEN a
    ELSE [p \in 1..Len(a) |-> a[p] + b[p]]

\* the images the general runs are drawn from, as (np.ravel(img))[indices]:
\* the counts of the three selected pixels
GeneralFrames == {<<0, 3, 2>>, <<2, 2, 3>>, <<0, 2, 0>>}

\* the image of the end-to-end scenario: every pixel is 1
E2EFrames == {[p \in 1..Len(E2ELabels) |-> 1]}

Frames == IF labels = E2ELabels THEN E2EFrames ELSE GeneralFrames

\* roi.max_counts(image_sets, label_array): the largest count of a labeled
\* pixel over the images of the run
max_counts(images) ==
    CHOOSE m \in 0..9 : /\ \E f \in images : MaxSeq(f) = m
                        /\ \A f \in images : MaxSeq(f) <= m

\* the number of frames a run supplies in all: the 8 frames of the end-to-end
\* scenario, MaxFrames in the general runs
FrameBudget == IF labels = E2ELabels THEN Len(E2ELabels) \div 2 ELSE MaxFrames

\* ------------------------------------------------------------- _process
RunningMeanDivNext(mean, sample, n) == CellAdd(mean, CellDivInt(CellSub(sample, mean), n + 1))

\* mean += (sample - mean)/n
RunningMean(mean, sample, n) == CellAdd(mean, CellDivInt(CellSub(sample, mean), n))

\* st0 holds the arrays _process modifies in place (and the history variables)
_process(level, buf_no, st0) ==
    With2(st0,
          [j \in Rois |-> Histogram(RoiData(st0.buf[level][buf_no], j), bin_edges(level))],
          LAMBDA st, hist :
        [st EXCEPT
            !.img_per_level[level] = @ + 1,
            !.speckle_cts[level] =
                [j \in Rois |-> RunningMean(@[j], hist[j], st.img_per_level[level] + 1)],
            !.speckle_cts_pow[level] =
                [j \in Rois |->
                    RunningMean(@[j], CellSquare(hist[j]), st.img_per_level[level] + 1)],
            !.spe_hist[level] = hist,
            !.calls = Append(@, level),
            !.hist_sum[level] = [j \in Rois |-> CellAdd(@[j], hist[j])],
            !.hist_pow_sum[level] = [j \in Rois |-> CellAdd(@[j], CellSquare(hist[j]))]])

\* ----------------------------------------------------------- the cascade
PrevSameSlot(c) == 1 + ((c - 1) % timebin_num)

\* prev = 1 + (cur[level - 1] - 2)%timebin_num
Prev(c) == 1 + ((c - 2) % timebin_num)

DisarmNever(tl, level) == tl

\* track_level[level] = 0
Disarm(tl, level) == [tl EXCEPT ![level] = 0]

\* the while loop without "processing = 0" after arming a level
RECURSIVE CascadeNoStop(_, _)
CascadeNoStop(level, st0) ==
    With(st0, LAMBDA st :
        IF st.track_level[level] = 0
        THEN IF level + 1 < num_times
             THEN CascadeNoStop(level + 1, [st EXCEPT !.track_level[level] = 1])
             ELSE [st EXCEPT !.track_level[level] = 1]
        ELSE LET prev == 1 + ((st.cur[level - 1] - 2) % timebin_num)
                 c == 1 + (st.cur[level] % timebin_num)
                 slot == PyIndex(c - 1, timebin_num)
                 sum == FrameAdd(st.buf[level - 1][PyIndex(prev - 1, timebin_num)],
                                 st.buf[level - 1][PyIndex(st.cur[level - 1] - 1, timebin_num)])
                 st2 == [st EXCEPT !.cur[level] = c,
                                   !.buf[level][slot] = sum,
                                   !.track_level[level] = 0,
                                   !.written[level] =
                                       Append(@, [slot |-> slot, frame |-> sum])]
             IN  IF level + 1 < num_times
                 THEN CascadeNoStop(level + 1, _process(level, slot, st2))
                 ELSE _process(level, slot, st2))

\* the while loop of lines 167-184, entered with processing true at `level`
RECURSIVE Cascade(_, _)
Cascade(level, st0) ==
    With(st0, LAMBDA st :
        IF st.track_level[level] = 0
        THEN [st EXCEPT !.track_level[level] = 1]
        ELSE LET prev == Prev(st.cur[level - 1])
                 c == 1 + (st.cur[level] % timebin_num)
                 slot == PyIndex(c - 1, timebin_num)
                 sum == FrameAdd(st.buf[level - 1][PyIndex(prev - 1, timebin_num)],
                                 st.buf[level - 1][PyIndex(st.cur[level - 1] - 1, timebin_num)])
                 st2 == [st EXCEPT !.cur[level] = c,
                                   !.buf[level][slot] = sum,
                                   !.track_level = Disarm(@, level),
                                   !.written[level] =
                                       Append(@, [slot |-> slot, frame |-> sum])]
             IN  IF level + 1 < num_times
                 THEN Cascade(level + 1, _process(level, slot, st2))
                 ELSE _process(level, slot, st2))

\* speckle_cts_all += (speckle_cts - speckle_cts_all)/(i + 1)
CrossSeriesMean(all, cts, idx) ==
    [l \in Levels |-> [j \in Rois |->
        CellAdd(all[l][j], CellDivInt(CellSub(cts[l][j], all[l][j]), idx + 1))]]

\* np.power(speckle_cts_all - np.power(speckle_cts_all, 2), .5)
StdDev(all) ==
    [l \in Levels |-> [j \in Rois |->
        CellSqrt(CellSub(all[l][j], CellSquare(all[l][j])))]]

\* ------------------------------------------------------------------ Init
ZeroCells == [l \in Levels |-> [j \in Rois |-> ZeroCell]]

\* lines 137-152: the arrays created at the head of every series
FreshBuf == [l \in Levels |-> [s \in 0..(timebin_num - 1) |-> <<>>]]

ArmedTrack == [l \in Levels |-> 1]

FreshTrack == [l \in Levels |-> 0]

FreshCur == [l \in Levels |-> timebin_num]

FreshCount == [l \in Levels |-> 0]

\* The calls of xsvs() that are enumerated: the label map, timebin_num and
\* the number of levels.  The general runs draw their images from
\* GeneralFrames, with MaxLevels levels for every timebin_num and a single
\* level once; the end-to-end scenario uses all-ones images.
Calls ==
    {[labels |-> DenseLabels, timebin_num |-> t, num_times |-> MaxLevels] :
        t \in TimebinNums}
    \cup {[labels |-> DenseLabels, timebin_num |-> 2, num_times |-> 1],
          [labels |-> GapLabels, timebin_num |-> 2, num_times |-> MaxLevels],
          [labels |-> E2ELabels, timebin_num |-> 2, num_times |-> MaxLevels]}

\* The per-series arrays do not exist before the first series; they are
\* written with the values lines 137-152 give them.
Init ==
    /\ \E c \in Calls :
          /\ labels = c.labels
          /\ timebin_num = c.timebin_num
          /\ num_times = c.num_times
    /\ max_cts = max_counts(Frames)
    /\ pc = "next_series"
    /\ i = -1
    /\ buf = FreshBuf
    /\ track_level = FreshTrack
    /\ cur = FreshCur
    /\ img_per_level = FreshCount
    /\ speckle_cts = ZeroCells
    /\ speckle_cts_pow = ZeroCells
    /\ speckle_cts_all = ZeroCells
    /\ speckle_cts_pow_all = ZeroCells
    /\ speckle_cts_std_dev = <<>>
    /\ result = "none"
    /\ n_total = 0
    /\ raw = <<>>
    /\ spe_hist = ZeroCells
    /\ calls = <<>>
    /\ hist_sum = ZeroCells
    /\ hist_pow_sum = ZeroCells
    /\ series_cts = <<>>
    /\ series_len = <<>>
    /\ n_folds = 0
    /\ written = [l \in Levels |-> <<>>]
    /\ mean_roi = <<>>
    /\ norm_bin_edges = <<>>
    /\ norm_bin_centers = <<>>

\* --------------------------------------------------------------- actions
\* for i, images in image_sets: the next series, lines 134-152
StartSeries ==
    /\ pc = "next_series"
    /\ i + 1 < MaxSeries
    /\ pc' = "next_frame"
    /\ i' = i + 1
    /\ buf' = FreshBuf
    /\ track_level' = FreshTrack
    /\ cur' = FreshCur
    /\ img_per_level' = FreshCount
    /\ speckle_cts' = ZeroCells
    /\ speckle_cts_pow' = ZeroCells
    /\ raw' = <<>>
    /\ calls' = <<>>
    /\ spe_hist' = ZeroCells
    /\ hist_sum' = ZeroCells
    /\ hist_pow_sum' = ZeroCells
    /\ written' = [l \in Levels |-> <<>>]
    /\ UNCHANGED <<inputs, all_state, result, n_total, series_cts, series_len, n_folds,
                   norm_state>>

\* for n, img in images: one raw frame, lines 153-192
Frame(img) ==
    /\ pc = "next_frame"
    /\ n_total < FrameBudget
    \* max_cts is the largest count of the whole image set: the runs
    \* enumerated are those whose first frame carries it
    /\ n_total = 0 => MaxSeq(img) = max_cts
    /\ LET c0 == (1 + cur[0]) % timebin_num
           slot0 == PyIndex(c0 - 1, timebin_num)
           st0 == [buf |-> [buf EXCEPT ![0][slot0] = img],
                   track_level |-> track_level,
                   cur |-> [cur EXCEPT ![0] = c0],
                   img_per_level |-> img_per_level,
                   speckle_cts |-> speckle_cts,
                   speckle_cts_pow |-> speckle_cts_pow,
                   spe_hist |-> spe_hist,
                   calls |-> <<>>,
                   hist_sum |-> hist_sum,
                   hist_pow_sum |-> hist_pow_sum,
                   written |-> [written EXCEPT
                                   ![0] = Append(@, [slot |-> slot0, frame |-> img])]]
           st1 == _process(0, slot0, st0)
       IN  \* st: the arrays after the cascade; all: speckle_cts_all after line 187
           \E st \in Value(IF num_times > 1 THEN Cascade(1, st1) ELSE st1) :
           \E all \in Value(CrossSeriesMean(speckle_cts_all, st.speckle_cts, i)) :
               /\ buf' = st.buf
               /\ track_level' = st.track_level
               /\ cur' = st.cur
               /\ img_per_level' = st.img_per_level
               /\ speckle_cts' = st.speckle_cts
               /\ speckle_cts_pow' = st.speckle_cts_pow
               /\ spe_hist' = st.spe_hist
               /\ calls' = st.calls
               /\ hist_sum' = st.hist_sum
               /\ hist_pow_sum' = st.hist_pow_sum
               /\ written' = st.written
               /\ speckle_cts_all' = all
               /\ speckle_cts_pow_all' =
                     CrossSeriesMean(speckle_cts_pow_all, st.speckle_cts_pow, i)
               /\ speckle_cts_std_dev' = <<StdDev(all)>>
    /\ raw' = Append(raw, img)
    /\ n_total' = n_total + 1
    /\ n_folds' = n_folds + 1
    /\ UNCHANGED <<inputs, pc, i, result, series_cts, series_len, norm_state>>

\* the stream of the current series ends: back to the head of the outer loop
EndSeries ==
    /\ pc = "next_frame"
    /\ pc' = "next_series"
    /\ series_cts' = Append(series_cts, speckle_cts)
    /\ series_len' = Append(series_len, Len(raw))
    /\ UNCHANGED <<inputs, i, run_state, all_state, result,
                   n_total, raw, spe_hist, calls, hist_sum, hist_pow_sum, n_folds, written,
                   norm_state>>

\* return speckle_cts_all, speckle_cts_std_dev (line 194); the second name
\* is bound by line 191 only
Return ==
    /\ pc = "next_series"
    /\ pc' = "done"
    /\ result' = IF speckle_cts_std_dev = <<>> THEN "UnboundLocalError" ELSE "returned"
    /\ UNCHANGED <<inputs, i, run_state, all_state, history, norm_state>>

Next ==
    \/ StartSeries
    \/ \E img \in Frames : Frame(img)
    \/ EndSeries
    \/ Return

Spec == Init /\ [][Next]_vars

\* --------------------------------------------------- normalize_bin_edges
\* +inf, the value numpy gives x/0 for x > 0
Inf == <<1, 0>>

IsFinite(r) == r[2] # 0

\* true division of the integer n by the number d (from __future__ import
\* division); numpy gives nan for 0/0 and inf for n/0, with a warning only
TrueDiv(n, d) ==
    IF d # 0 THEN Rat(n, d)
    ELSE IF n = 0 THEN NaN
    ELSE IF n > 0 THEN Inf
    ELSE <<-1, 0>>

\* the midpoint of two edges; nan and inf propagate
Midpoint(a, b) ==
    IF IsFinite(a) /\ IsFinite(b) THEN RDivInt(RAdd(a, b), 2)
    ELSE IF a = NaN \/ b = NaN \/ a # b THEN NaN
    ELSE a

\* skxray.core.utils.bin_edges_to_centers: the midpoints of adjacent edges
bin_edges_to_centers(edges) ==
    [k \in 1..(IF Len(edges) = 0 THEN 0 ELSE Len(edges) - 1) |->
        Midpoint(edges[k], edges[k + 1])]

\* np.arange(max_cts*2**level)/(mean*2**level)
NormEdges(level, mean) ==
    With(Arange(max_cts * 2^level), LAMBDA e :
        [k \in 1..Len(e) |-> TrueDiv(e[k], mean * 2^level)])

\* the arguments of the enumerated calls
NormMaxCts == {1, 2, 3}

MeanRois == UNION {[1..n -> {0, 1, 2}] : n \in 1..2}

num_rois == Len(mean_roi)

\* a call of normalize_bin_edges; xsvs() is not running
NormInit ==
    /\ num_times \in 1..MaxLevels
    /\ max_cts \in NormMaxCts
    /\ mean_roi \in MeanRois
    /\ norm_bin_edges = <<>>
    /\ norm_bin_centers = <<>>
    /\ pc = "normalize"
    /\ i = 0
    /\ result = "none"
    /\ labels = DenseLabels
    /\ timebin_num = 2
    /\ buf = FreshBuf
    /\ track_level = FreshTrack
    /\ cur = FreshCur
    /\ img_per_level = FreshCount
    /\ speckle_cts = ZeroCells
    /\ speckle_cts_pow = ZeroCells
    /\ speckle_cts_all = ZeroCells
    /\ speckle_cts_pow_all = ZeroCells
    /\ speckle_cts_std_dev = <<>>
    /\ n_total = 0
    /\ raw = <<>>
    /\ spe_hist = ZeroCells
    /\ calls = <<>>
    /\ hist_sum = ZeroCells
    /\ hist_pow_sum = ZeroCells
    /\ series_cts = <<>>
    /\ series_len = <<>>
    /\ n_folds = 0
    /\ written = [l \in Levels |-> <<>>]

\* one pass of "for i in range(num_times)" with its inner loop over the
\* ROIs, lines 282-285
NormLevel ==
    /\ pc = "normalize"
    /\ i < num_times
    /\ \E edges \in Value([j \in 1..num_rois |-> NormEdges(i, mean_roi[j])]) :
          /\ norm_bin_edges' = Append(norm_bin_edges, edges)
          /\ norm_bin_centers' =
                Append(norm_bin_centers,
                       [j \in 1..num_rois |-> bin_edges_to_centers(edges[j])])
    /\ i' = i + 1
    /\ UNCHANGED <<inputs, pc, run_state, all_state, result, history, mean_roi>>

\* return norm_bin_edges, norm_bin_centers (line 287)
NormReturn ==
    /\ pc = "normalize"
    /\ i = num_times
    /\ pc' = "done"
    /\ result' = "returned"
    /\ UNCHANGED <<inputs, i, run_state, all_state, history, norm_state>>

NormNext == NormLevel \/ NormReturn

NormSpec == NormInit /\ [][NormNext]_vars

\* ------------------------------------------------------------ properties
\* the slot of level l written last: cur[l] - 1 as a Python index
LastSlot(l) == PyIndex(cur[l] - 1, timebin_num)

\* the pixelwise sum of the raw frames a .. b of the current series
RECURSIVE BlockSum(_, _)
BlockSum(a, b) == IF a > b THEN <<>> ELSE FrameAdd(raw[a], BlockSum(a + 1, b))

\* a Frame step (the only step that supplies a raw frame)
FrameStep == n_total' = n_total + 1

\* C1: with timebin_num = 2, after N raw frames of a series level l has
\* received exactly floor(N / 2^l) synthesized frames, for every level l.
CascadeFrameCounts ==
    timebin_num = 2 =>
        \A l \in Levels : img_per_level[l] = Len(raw) \div (2^l)

CascadeFrameCountsWitness ==
    /\ timebin_num = 2
    /\ num_times = MaxLevels
    /\ Len(raw) >= 4
    /\ img_per_level[2] >= 1
    /\ img_per_level[1] >= 2

\* C2: for every level l >= 1 a promotion into l happens on exactly the 2nd,
\* 4th, ... event of level l-1: an event of level l-1 finds track_level[l]
\* either 0, and then arms it without promoting, or 1, and then promotes and
\* resets it to 0; without an event of level l-1 nothing happens at level l.
PromotionAlternation ==
    [][FrameStep =>
        \A l \in Levels \ {0} :
            LET event == img_per_level'[l - 1] = img_per_level[l - 1] + 1
                promo == img_per_level'[l] = img_per_level[l] + 1
            IN  /\ img_per_level'[l] \in {img_per_level[l], img_per_level[l] + 1}
                /\ promo => event
                /\ event => (promo <=> img_per_level'[l - 1] % 2 = 0)
                /\ (event /\ track_level[l] = 0) => (~promo /\ track_level'[l] = 1)
                /\ (event /\ track_level[l] = 1) => (promo /\ track_level'[l] = 0)
                /\ ~event => track_level'[l] = track_level[l]]_vars

PromotionAlternationWitness ==
    /\ num_times = MaxLevels
    /\ img_per_level[1] = 2
    /\ img_per_level[2] = 1
    /\ track_level[1] = 0
    /\ track_level[2] = 0

\* C3: for timebin_num >= 2 the frame level l >= 1 stored last, its k-th, is
\* the pixelwise sum of the raw frames (k-1)*2^l + 1 .. k*2^l of the series,
\* and right after a promotion the slots prev-1 and cur[l-1]-1 of level l-1
\* hold the two frames of level l-1 that were summed, its (2k-1)-th and 2k-th.
PromotionSum ==
    timebin_num >= 2 =>
        \A l \in Levels \ {0} :
            LET k == img_per_level[l]
                w == 2^(l - 1)
            IN  k >= 1 =>
                /\ buf[l][LastSlot(l)] = BlockSum((k - 1) * 2 * w + 1, k * 2 * w)
                /\ img_per_level[l - 1] = 2 * k =>
                    /\ buf[l - 1][PyIndex(Prev(cur[l - 1]) - 1, timebin_num)]
                           = BlockSum((2 * k - 2) * w + 1, (2 * k - 1) * w)
                    /\ buf[l - 1][LastSlot(l - 1)]
                           = BlockSum((2 * k - 1) * w + 1, 2 * k * w)

PromotionSumWitness ==
    /\ timebin_num = 3
    /\ num_times = MaxLevels
    /\ img_per_level[2] = 1
    /\ Len(raw) = 4
    /\ raw[1] # raw[2]
    /\ raw[3] # raw[4]
    /\ raw[1] # raw[3]

\* C4: after n >= 1 histograms have been folded into speckle_cts[level, roi]
\* (n = img_per_level[level]), the cell is their arithmetic mean and
\* speckle_cts_pow[level, roi] is the mean of their elementwise squares;
\* before the first fold the cells are the 0 they were created with.
IncrementalMean ==
    \A l \in Levels : \A j \in Rois :
        IF img_per_level[l] = 0
        THEN speckle_cts[l][j] = ZeroCell /\ speckle_cts_pow[l][j] = ZeroCell
        ELSE /\ speckle_cts[l][j] = CellDivInt(hist_sum[l][j], img_per_level[l])
             /\ speckle_cts_pow[l][j] = CellDivInt(hist_pow_sum[l][j], img_per_level[l])

IncrementalMeanWitness ==
    /\ labels = DenseLabels
    /\ img_per_level[0] = 3
    /\ speckle_cts[0][0] = Array(<< <<1, 3>>, <<2, 3>> >>)
    /\ speckle_cts_pow[0][0] = Array(<< <<1, 3>>, <<2, 3>> >>)

\* a series completes when its stream is exhausted
SeriesCompletes == pc = "next_frame" /\ pc' = "next_series"

\* C5 (as claimed): the cross-series state is updated exactly once per
\* completed series, when the series completes, and is not modified while the
\* series is still supplying frames.
CrossSeriesOncePerSeries ==
    [][/\ (all_state' # all_state \/ n_folds' # n_folds) => SeriesCompletes
       /\ SeriesCompletes => n_folds' = n_folds + 1]_vars

\* the sum of cell (l, j) of the first k completed series' speckle_cts
RECURSIVE SeriesSum(_, _, _)
SeriesSum(k, l, j) ==
    IF k = 0 THEN ZeroCell ELSE CellAdd(SeriesSum(k - 1, l, j), series_cts[k][l][j])

\* C6 (as claimed): when xsvs() returns after k >= 1 series of at least one
\* frame each, speckle_cts_all[level, roi] is the arithmetic mean over the
\* series of each series' final speckle_cts[level, roi].
CrossSeriesIsMeanOfSeries ==
    (/\ result = "returned"
     /\ Len(series_len) >= 1
     /\ \A k \in 1..Len(series_len) : series_len[k] >= 1)
    => \A l \in Levels : \A j \in Rois :
           speckle_cts_all[l][j] =
               CellDivInt(SeriesSum(Len(series_cts), l, j), Len(series_cts))

\* the sum of the entries of an array cell
RECURSIVE RSum(_)
RSum(s) == IF s = <<>> THEN RInt(0) ELSE RAdd(Head(s), RSum(Tail(s)))

\* bin k of a histogram over edges holds the count v
BinHolds(edges, k, v) ==
    /\ edges[k] <= v
    /\ \/ v < edges[k + 1]
       \/ k = Len(edges) - 1 /\ v = edges[k + 1]

\* the cell is an array that is 1 in the bin of level l holding v and 0 in
\* every other bin
PointMass(cell, l, v) ==
    /\ ~cell.scalar
    /\ Len(cell.v) = Len(bin_edges(l)) - 1
    /\ \E k \in 1..Len(cell.v) :
          /\ BinHolds(bin_edges(l), k, v)
          /\ cell.v[k] = RInt(1)
          /\ \A m \in 1..Len(cell.v) : m # k => cell.v[m] = RInt(0)

\* the frame of level l that was handed to _process last
LastFrame(l) == buf[l][LastSlot(l)]

\* C7 (as claimed): for every level and every ROI with at least one pixel the
\* per-frame histogram computed in _process sums to 1 over its bins (every
\* pixel of the enumerated frames lies between 0 and max_cts*2^level).
HistogramNormalized ==
    \A l \in Levels : \A j \in Rois :
        (img_per_level[l] >= 1 /\ num_pixels(j) >= 1)
        => (~spe_hist[l][j].scalar /\ RSum(spe_hist[l][j].v) = RInt(1))

\* C8 (as claimed): in the end-to-end scenario (4x4 image, two ROIs of 8
\* pixels, timebin_num = 2, one series of all-ones frames) every level-0
\* histogram and the level-0 running mean are a point mass at 1, the standard
\* error is 0 everywhere, after 8 frames level 1 has received 4 frames, and
\* every level-1 frame is all twos with its histogram a point mass at 2.
EndToEndScenario ==
    (labels = E2ELabels /\ i = 0 /\ Len(raw) >= 1) =>
        /\ \A j \in Rois :
              /\ PointMass(spe_hist[0][j], 0, 1)
              /\ PointMass(speckle_cts[0][j], 0, 1)
        /\ \A l \in Levels : \A j \in Rois :
              LET sd == speckle_cts_std_dev[1][l][j]
              IN  \A k \in 1..Len(sd.v) : sd.v[k] = RSqrt(RInt(0))
        /\ Len(raw) = 8 => img_per_level[1] = 4
        /\ img_per_level[1] >= 1 =>
              /\ LastFrame(1) = [p \in 1..Len(labels) |-> 2]
              /\ \A j \in Rois : PointMass(spe_hist[1][j], 1, 2)

\* C9 (as claimed): for a ROI of exactly one pixel the per-frame histogram of
\* every level is a point mass at that pixel's value.
SinglePixelPointMass ==
    \A l \in Levels : \A j \in Rois :
        (img_per_level[l] >= 1 /\ num_pixels(j) = 1)
        => PointMass(spe_hist[l][j], l, RoiData(LastFrame(l), j)[1])

\* C10 (as claimed): for every timebin_num >= 2, after n raw frames of a
\* series level l has received exactly floor(n / timebin_num^l) frames.
CascadeFrameCountsAnyBase ==
    timebin_num >= 2 =>
        \A l \in Levels : img_per_level[l] = Len(raw) \div (timebin_num^l)

\* C11 (as claimed): a ROI that no pixel carries yields in _process a
\* histogram whose entries are all 0, none of them undefined, at every level
\* that has processed a frame.
EmptyRoiZeroHistogram ==
    \A l \in Levels : \A j \in Rois :
        (img_per_level[l] >= 1 /\ num_pixels(j) = 0)
        => /\ ~spe_hist[l][j].scalar
           /\ \A k \in 1..Len(spe_hist[l][j].v) : spe_hist[l][j].v[k] = RInt(0)

\* C12 (as claimed): normalize_bin_edges called with a mean_roi in which
\* some ROI's mean intensity is 0 ends with a division-by-zero error, and
\* what it returns never holds an infinite or undefined edge or center.
ZeroMeanReported ==
    /\ (pc = "done" /\ \E j \in 1..Len(mean_roi) : mean_roi[j] = 0)
           => result = "ZeroDivisionError"
    /\ (pc = "done" /\ mean_roi # <<>> /\ result = "returned") =>
           \A l \in 1..Len(norm_bin_edges) : \A j \in 1..num_rois :
               /\ \A k \in 1..Len(norm_bin_edges[l][j]) :
                      IsFinite(norm_bin_edges[l][j][k])
               /\ \A k \in 1..Len(norm_bin_centers[l][j]) :
                      IsFinite(norm_bin_centers[l][j][k])

\* the step that enters a series: the head of "for i, images in image_sets"
SeriesStarts == pc = "next_series" /\ pc' = "next_frame"

\* C13: at the start of every series, however the previous one ended, every
\* trigger flag is 0, every img_per_level is 0, every cursor is at timebin_num,
\* every ring buffer slot holds its placeholder and every speckle_cts and
\* speckle_cts_pow cell is the 0 it is created with; speckle_cts_all and
\* speckle_cts_pow_all are carried over unchanged.
SeriesStartsFresh ==
    [][SeriesStarts =>
        /\ \A l \in Levels :
              /\ track_level'[l] = 0
              /\ img_per_level'[l] = 0
              /\ cur'[l] = timebin_num
              /\ \A s \in 0..(timebin_num - 1) : buf'[l][s] = <<>>
              /\ \A j \in Rois :
                    /\ speckle_cts'[l][j] = Scalar(RInt(0))
                    /\ speckle_cts_pow'[l][j] = Scalar(RInt(0))
        /\ speckle_cts_all' = speckle_cts_all
        /\ speckle_cts_pow_all' = speckle_cts_pow_all]_vars

\* the second series has just started after a first series of three frames,
\* which ended with level 1 armed and one frame at level 1
SeriesStartsFreshWitness ==
    /\ i = 1
    /\ pc = "next_frame"
    /\ raw = <<>>
    /\ series_len = <<3>>
    /\ num_times = MaxLevels
    /\ speckle_cts_all # ZeroCells
    /\ track_level = [l \in Levels |-> 0]

\* C14 (as claimed): a series without frames is not an error: whenever some
\* or all of the series of a call were empty, xsvs() still returns the pair
\* (speckle_cts_all, speckle_cts_std_dev).
EmptySeriesNotAnError ==
    (/\ pc = "done"
     /\ \E k \in 1..Len(series_len) : series_len[k] = 0)
    => result = "returned"

\* C15 (as claimed): for every level l the bin edges are the integers
\* 0 .. max_cts*2^l, both ends included, and every pixel of a frame handed to
\* _process at level l lies in some bin of that level.
BinEdgesSpanMaximum ==
    \A l \in Levels :
        img_per_level[l] >= 1 =>
            /\ bin_edges(l) = [k \in 1..(max_cts * 2^l + 1) |-> k - 1]
            /\ \A p \in 1..Len(LastFrame(l)) :
                  \E k \in 1..(Len(bin_edges(l)) - 1) :
                      BinHolds(bin_edges(l), k, LastFrame(l)[p])

\* C16: for every level and every timebin_num >= 1 the writes to the level's
\* ring buffer visit the slots 0, 1, ..., timebin_num-1, 0, ... in cyclic
\* order, so every write lands in a valid slot, and the buffer holds exactly
\* the min(count, timebin_num) most recent frames of the level: slot s holds
\* the frame of the latest write to s, which is one of the last timebin_num
\* writes, and a slot not yet written holds its placeholder.
RingBufferCyclic ==
    \A l \in Levels :
        LET w == written[l]
            n == Len(w)
        IN  /\ \A k \in 1..n :
                  /\ w[k].slot \in 0..(timebin_num - 1)
                  /\ w[k].slot = (k - 1) % timebin_num
            /\ \A s \in 0..(timebin_num - 1) :
                  IF s < n
                  THEN LET m == n - ((n - 1 - s) % timebin_num)
                       IN  /\ m > n - timebin_num
                           /\ buf[l][s] = w[m].frame
                  ELSE buf[l][s] = <<>>

\* four frames with timebin_num = 3: the fourth write of level 0 has wrapped
\* to slot 0 and replaced a different frame, the third went to slot -1
RingBufferCyclicWitness ==
    /\ timebin_num = 3
    /\ num_times = MaxLevels
    /\ Len(written[0]) = 4
    /\ written[0][3].slot = 2
    /\ written[0][4].slot = 0
    /\ written[0][1].frame # written[0][4].frame
    /\ Len(written[1]) = 2
    /\ Len(written[2]) = 1

\* C17: for every raw frame the cascade terminates within the frame's step:
\* _process is called for level 0 and then for levels 1, 2, ... in ascending
\* order without gaps, every level it continued through was armed, the loop
\* stops at the first level that was not armed (which it arms, leaving the
\* levels above untouched) or after level L-1, no level index reaches L, and
\* all the frame's updates of img_per_level are made by that one step.
CascadeAscending ==
    [][FrameStep =>
        LET K == Len(calls')
        IN  /\ K \in 1..num_times
            /\ \A m \in 1..K : calls'[m] = m - 1
            /\ \A l \in 1..(K - 1) : track_level[l] = 1 /\ track_level'[l] = 0
            /\ K < num_times => (track_level[K] = 0 /\ track_level'[K] = 1)
            /\ \A l \in Levels :
                  /\ img_per_level'[l] = img_per_level[l] + (IF l < K THEN 1 ELSE 0)
                  /\ l > K => /\ track_level'[l] = track_level[l]
                              /\ cur'[l] = cur[l]
                              /\ buf'[l] = buf[l]]_vars

\* the fourth frame of a series, whose cascade went on through levels 1 and 2
CascadeAscendingWitness ==
    /\ num_times >= 3
    /\ calls = <<0, 1, 2>>
    /\ Len(raw) = 4
    /\ img_per_level[2] = 1

\* C18 (as claimed): after each fold every value m of speckle_cts_all lies in
\* [0, 1], so the radicand m - m^2 is never negative, and the standard error
\* of the bin is the square root of that radicand.
StdErrorRadicandBounded ==
    speckle_cts_std_dev # <<>> =>
        \A l \in Levels : \A j \in Rois :
            LET m == speckle_cts_all[l][j]
                sd == speckle_cts_std_dev[1][l][j]
            IN  \A k \in 1..Len(m.v) :
                    /\ ~IsNaN(m.v[k])
                    /\ 0 <= m.v[k][1]
                    /\ m.v[k][1] <= m.v[k][2]
                    /\ sd.v[k] = [rad |-> RSub(m.v[k], RSquare(m.v[k]))]

\* C19: between two raw frames of a series, for every level l >= 1 the flag
\* track_level[l] is set exactly when img_per_level[l-1] is odd, and
\* img_per_level[l] = floor(img_per_level[l-1] / 2); hence img_per_level does
\* not increase with the level.
FlagsMatchCounters ==
    \A l \in Levels \ {0} :
        /\ track_level[l] \in {0, 1}
        /\ track_level[l] = 1 <=> img_per_level[l - 1] % 2 = 1
        /\ img_per_level[l] = img_per_level[l - 1] \div 2
        /\ img_per_level[l] <= img_per_level[l - 1]

\* three frames into a series: levels 1 and 2 are both armed
FlagsMatchCountersWitness ==
    /\ num_times >= 3
    /\ img_per_level[0] = 3
    /\ img_per_level[1] = 1
    /\ img_per_level[2] = 0
    /\ track_level[1] = 1
    /\ track_level[2] = 1

\* C20: whenever level l >= 1 has just promoted, the two slots of level l-1
\* that were summed, prev-1 and cur[l-1]-1, hold the last two frames written
\* to level l-1 by the current series, never the placeholder of a fresh
\* buffer; for timebin_num >= 2 they are two different slots, with
\* timebin_num = 1 they are the same slot and the frame is added to itself.
PromotionReadsCurrentSeries ==
    \A l \in Levels \ {0} :
        LET w == written[l - 1]
            n == Len(w)
            a == PyIndex(Prev(cur[l - 1]) - 1, timebin_num)
            b == PyIndex(cur[l - 1] - 1, timebin_num)
        IN  (img_per_level[l] >= 1 /\ img_per_level[l - 1] = 2 * img_per_level[l]) =>
                /\ n = img_per_level[l - 1]
                /\ buf[l - 1][a] # <<>>
                /\ buf[l - 1][b] # <<>>
                /\ w[n].slot = b
                /\ buf[l - 1][b] = w[n].frame
                /\ IF timebin_num >= 2
                   THEN /\ a # b
                        /\ w[n - 1].slot = a
                        /\ buf[l - 1][a] = w[n - 1].frame
                        /\ written[l][Len(written[l])].frame
                               = FrameAdd(w[n - 1].frame, w[n].frame)
                   ELSE /\ a = b
                        /\ written[l][Len(written[l])].frame
                               = FrameAdd(w[n].frame, w[n].frame)

\* the first promotion of the second series, after a first series of one
\* frame that ended with level 1 armed: it read slots 0 and 1 of level 0,
\* both written by the second series
PromotionReadsCurrentSeriesWitness ==
    /\ timebin_num = 3
    /\ i = 1
    /\ series_len = <<1>>
    /\ img_per_level[0] = 2
    /\ img_per_level[1] = 1
    /\ PyIndex(Prev(cur[0]) - 1, timebin_num) = 0
    /\ PyIndex(cur[0] - 1, timebin_num) = 1
    /\ written[0][1].frame # written[0][2].frame

====
